---- MODULE Spec2Model ----
(***************************************************************************)
(* Model of Code/1_data_modelling.py: the synthetic P2P data generator.    *)
(*                                                                         *)
(* Time is counted in ticks from month_start = 0.  A tick stands for the   *)
(* granule of rand_dt (one second in the source); a day has TicksPerDay    *)
(* ticks and the window has `days' days, so the window is [0, MonthEnd).   *)
(* Every random.* draw is a nondeterministic choice over the values the    *)
(* call can return; uuid.uuid4() draws from OS entropy, not from the       *)
(* seeded generator.  Fields that no operation ever reads back             *)
(* (first_name, last_name, currency, status, page, device, os, ip) are     *)
(* left out of the records.                                                *)
(***************************************************************************)
EXTENDS Integers, Sequences, FiniteSets, TLC

VARIABLES
    pc,              \* position of the run
    month_str,       \* argument of parse_month, a sequence of characters
    parsed,          \* what parse_month returned or raised
    days,            \* (month_end - month_start).days
    n_users, null_email_rate, null_signup_rate,
    users, user_meta,
    n_txns, before_signup_rate, null_amount_rate, dup_id_rate,
    txns,            \* the transactions of the run
    sender_id, r,    \* locals of the clean batch loop / pick_receiver
    redraws,         \* turns of the redraw loop of pick_receiver, modulo 2
    before_targets, dup_targets,   \* rows the passes sampled (as sets)
    n_events, orphan_user_rate, null_event_type_rate, out_of_window_rate,
    events,
    orphan_targets, oow_targets,   \* rows the passes sampled (as sets)
    entropy,         \* OS entropy behind uuid4() in the run
    entropy2, txns2, events2,  \* a second run with the same seed (0: none)
    observed         \* what summarize_anomalies returned

vars == <<pc, month_str, parsed, days, n_users, null_email_rate,
          null_signup_rate, users, user_meta, n_txns, before_signup_rate,
          null_amount_rate, dup_id_rate, txns, sender_id, r, redraws,
          before_targets,
          dup_targets, n_events, orphan_user_rate,
          null_event_type_rate, out_of_window_rate, events, orphan_targets,
          oow_targets, entropy, entropy2, txns2, events2, observed>>

monthVars  == <<month_str, parsed>>
userVars   == <<n_users, null_email_rate, null_signup_rate, users, user_meta>>
txnVars    == <<n_txns, before_signup_rate, null_amount_rate, dup_id_rate,
                txns, txns2, sender_id, r, redraws,
                before_targets, dup_targets>>
eventVars  == <<n_events, orphan_user_rate, null_event_type_rate,
                out_of_window_rate, events, events2, orphan_targets,
                oow_targets>>

(***************************************************************************)
(* Bounds of the model.                                                    *)
(***************************************************************************)
MaxMonthStrLen == 7     \* longest month designator tried
MaxDays        == 5     \* longest window, in days
TicksPerDay    == 1     \* ticks in a day
MaxUsers       == 2     \* largest n_users
MaxTxns        == 3     \* largest n_txns
MaxEvents      == 2     \* largest n_events
MaxLoad        == 5     \* largest total size of the inputs of a run
RateDen        == 2     \* rates are k / RateDen, k in 0..RateDen
UuidVariants   == 2     \* distinct OS entropy streams
MaxOrphanOffset == 2    \* largest offset of an orphan user_id (50 in the source)

\* None is the empty tuple and a present value v is <<v>>; a text is the
\* tuple of its parts, so the empty string is the empty tuple as well
None    == <<>>
Blank   == <<>>
Some(v) == <<v>>
Val(o)  == o[1]

Max(a, b) == IF a >= b THEN a ELSE b
Min(a, b) == IF a <= b THEN a ELSE b

Range(s) == {s[i] : i \in DOMAIN s}

(***************************************************************************)
(* parse_month                                                             *)
(***************************************************************************)
Alphabet == {"0", "1", "2", "6", "-", "x"}
Digits   == {"0", "1", "2", "3", "4", "5", "6", "7", "8", "9"}

DigitVal(c) ==
    CASE c = "0" -> 0 [] c = "1" -> 1 [] c = "2" -> 2 [] c = "3" -> 3
      [] c = "4" -> 4 [] c = "5" -> 5 [] c = "6" -> 6 [] c = "7" -> 7
      [] c = "8" -> 8 [] c = "9" -> 9

Strings(n) == UNION {[1..k -> Alphabet] : k \in 0..n}

\* str.split(sep): the pieces between the separators, empty pieces included
RECURSIVE SplitFrom(_, _, _, _)
SplitFrom(s, sep, i, cur) ==
    IF i > Len(s) THEN <<cur>>
    ELSE IF s[i] = sep THEN <<cur>> \o SplitFrom(s, sep, i + 1, <<>>)
    ELSE SplitFrom(s, sep, i + 1, Append(cur, s[i]))

Split(s, sep) == SplitFrom(s, sep, 1, <<>>)

\* int(s) succeeds on a non-empty run of decimal digits (of the characters
\* of Alphabet, no other one is accepted by int)
IsInt(s) == Len(s) > 0 /\ \A i \in DOMAIN s : s[i] \in Digits

RECURSIVE IntOf(_)
IntOf(s) ==
    IF Len(s) = 0 THEN 0
    ELSE 10 * IntOf(SubSeq(s, 1, Len(s) - 1)) + DigitVal(s[Len(s)])

MINYEAR == 1
MAXYEAR == 9999

IsLeap(y) == (y % 4 = 0) /\ ((y % 100 # 0) \/ (y % 400 = 0))

\* calendar.monthrange(year, month)[1]
DaysInMonth(y, m) ==
    IF m = 2 THEN (IF IsLeap(y) THEN 29 ELSE 28)
    ELSE IF m \in {4, 6, 9, 11} THEN 30 ELSE 31

\* parse_month: the window, or the exception the call raises
parse_month(s) ==
    LET parts == Split(s, "-") IN
    IF Len(parts) # 2 THEN [raised |-> "ValueError"]          \* unpacking
    ELSE IF ~IsInt(parts[1]) \/ ~IsInt(parts[2])
         THEN [raised |-> "ValueError"]                         \* int()
    ELSE LET year  == IntOf(parts[1])
             month == IntOf(parts[2])
         IN  IF year < MINYEAR \/ year > MAXYEAR \/ month < 1 \/ month > 12
             THEN [raised |-> "ValueError"]                     \* datetime()
             ELSE IF year = MAXYEAR /\ month = 12
             THEN [raised |-> "OverflowError"]                  \* start + timedelta
             ELSE [raised |-> "",
                   start  |-> <<year, month, 1>>,
                   end    |-> IF month = 12 THEN <<year + 1, 1, 1>>
                              ELSE <<year, month + 1, 1>>,
                   days   |-> DaysInMonth(year, month)]

(***************************************************************************)
(* Time                                                                    *)
(***************************************************************************)
OneDay    == TicksPerDay
OneHour   == 1              \* timedelta(hours=1), never less than a tick
OneMinute == 1              \* timedelta(minutes=1), never less than a tick
month_start == 0
month_end   == days * OneDay

\* rand_dt(start, end): the datetimes the call can return
rand_dt_closed(start, end) ==
    IF end - start <= 0 THEN {start} ELSE start .. end
rand_dt(start, end) ==
    IF end - start <= 0 THEN {start} ELSE start .. (end - 1)

\* iso(dt): the text "<date> <time of day>", kept as its two parts
iso(dt) == <<dt \div OneDay, dt % OneDay>>

_is_null(v) == v = None \/ v = Blank

\* _parse_dt(s): the datetime the text stands for, None for an empty one
_parse_dt(s) == IF _is_null(s) THEN None ELSE Some(s[1] * OneDay + s[2])

(***************************************************************************)
(* Rates and coin flips                                                    *)
(***************************************************************************)
Rates == 0 .. RateDen                       \* the rate k stands for k / RateDen

\* random.random() < k / RateDen, random() being in [0, 1)
Bernoulli(k) == {b \in BOOLEAN : (b => k > 0) /\ (~b => k < RateDen)}

\* max(1, int(n * rate))
Target(n, k) == Max(1, (n * k) \div RateDen)

\* random.sample(population, k): every ordering of every k-subset
Samples(S, k) ==
    {q \in [1..k -> S] : \A i, j \in 1..k : i # j => q[i] # q[j]}

(***************************************************************************)
(* Scenario tables                                                         *)
(***************************************************************************)
TOP_ADOPTION_COUNTRY == "FR"
VIP_COUNTRY          == "CH"
\* FR, CH and one of the eight countries that share the baseline figures
Countries == {"FR", "PT", "CH"}
\* FEATURE_ADOPTION_RATE, in hundredths
FEATURE_ADOPTION_RATE(c) ==
    CASE c = "FR" -> 75 [] c = "CH" -> 8 [] OTHER -> 25
\* AMOUNT_MULTIPLIER, in tenths
AMOUNT_MULTIPLIER(c) ==
    CASE c = "FR" -> 11 [] c = "CH" -> 80 [] OTHER -> 10

\* random.random() < p / 100
BernoulliPct(p) == {b \in BOOLEAN : (b => p > 0) /\ (~b => p < 100)}

(***************************************************************************)
(* Idle parts of the state, for the specifications that do not use them    *)
(***************************************************************************)
IdleMonth == month_str = <<>> /\ parsed = [raised |-> ""]
IdleUsers == /\ null_email_rate = 0 /\ null_signup_rate = 0
             /\ users = <<>>
IdleTxns  == /\ n_txns = 0 /\ before_signup_rate = 0 /\ null_amount_rate = 0
             /\ dup_id_rate = 0 /\ txns = <<>> /\ txns2 = <<>>
             /\ sender_id = 0 /\ r = 0 /\ redraws = 0 /\ before_targets = {}
             /\ dup_targets = {}
IdleEvents == /\ n_events = 0 /\ orphan_user_rate = 0
              /\ null_event_type_rate = 0 /\ out_of_window_rate = 0
              /\ events = <<>> /\ events2 = <<>> /\ orphan_targets = {}
              /\ oow_targets = {}
IdleUuid  == entropy = 0 /\ entropy2 = 0
IdleAudit == observed = None

(***************************************************************************)
(* The window resolver on its own                                          *)
(***************************************************************************)
InitMonth ==
    /\ pc = "parse_month"
    /\ month_str \in Strings(MaxMonthStrLen)
    /\ parsed = [raised |-> ""]
    /\ days = 0 /\ n_users = 0 /\ user_meta = <<>>
    /\ IdleUsers /\ IdleTxns /\ IdleEvents /\ IdleUuid /\ IdleAudit

\* main, line 555: month_start, month_end = parse_month(args.month)
ParseMonth ==
    /\ pc = "parse_month"
    /\ parsed' = parse_month(month_str)
    /\ pc' = IF parse_month(month_str).raised = "" THEN "parsed" ELSE "raised"
    /\ UNCHANGED <<month_str, days, userVars, txnVars, eventVars, entropy, entropy2, observed>>

NextMonth == ParseMonth
SpecMonth == InitMonth /\ [][NextMonth]_vars

(***************************************************************************)
(* generate_users                                                          *)
(***************************************************************************)
base_email == <<"fn.ln0000@example.com">>

\* the loop variable of `for user_id in range(1, n_users + 1)'
LoopUserIdFromZero(us) == Len(us)
LoopUserId(us) == Len(us) + 1

InitUsers ==
    /\ pc = "generate_users"
    /\ IdleMonth /\ IdleTxns /\ IdleEvents /\ IdleUuid /\ IdleAudit
    /\ days \in 1..MaxDays
    /\ n_users \in 0..MaxUsers
    /\ null_email_rate \in Rates
    /\ null_signup_rate \in Rates
    /\ users = <<>>
    /\ user_meta = <<>>

\* one turn of the loop of generate_users
GenUser ==
    /\ pc = "generate_users"
    /\ Len(users) < n_users
    /\ \E signup_dt \in rand_dt(month_start, month_end),
          no_signup \in Bernoulli(null_signup_rate),
          no_email \in Bernoulli(null_email_rate),
          country \in Countries :
        \E is_feature_user \in BernoulliPct(FEATURE_ADOPTION_RATE(country)) :
          LET user_id == LoopUserId(users) IN
          /\ users' = Append(users,
                 [user_id   |-> user_id,
                  email     |-> IF no_email THEN Blank ELSE base_email,
                  country   |-> country,
                  signup_at |-> IF no_signup THEN Blank ELSE iso(signup_dt)])
          /\ user_meta' = (user_id :>
                 [signup_dt       |-> IF no_signup THEN None ELSE Some(signup_dt),
                  country         |-> country,
                  is_feature_user |-> is_feature_user]) @@ user_meta
    /\ UNCHANGED <<pc, monthVars, days, n_users, null_email_rate,
                   null_signup_rate, txnVars, eventVars, entropy, entropy2, observed>>

\* return users, user_meta
ReturnUsers ==
    /\ pc = "generate_users"
    /\ Len(users) = n_users
    /\ pc' = "users_done"
    /\ UNCHANGED <<monthVars, days, userVars, txnVars, eventVars,
                   entropy, entropy2, observed>>

NextUsers == GenUser \/ ReturnUsers
SpecUsers == InitUsers /\ [][NextUsers]_vars

(***************************************************************************)
(* generate_transactions                                                   *)
(* Row i of the source (0-based) is element i + 1 of txns.                 *)
(***************************************************************************)
MinFeatureUsers == 10
SAME_COUNTRY_RECEIVER_PROB == 65        \* in hundredths

\* what generate_users can leave in user_meta[uid]
UserMetas ==
    [signup_dt : {None} \cup {Some(t) : t \in rand_dt(month_start, month_end)},
     country : Countries,
     is_feature_user : BOOLEAN]

\* feature_users, with the fallback to the whole population
feature_users ==
    LET adopters == {uid \in 1..n_users : user_meta[uid].is_feature_user}
    IN  IF Cardinality(adopters) < MinFeatureUsers THEN 1..n_users
        ELSE adopters

\* the weight pick_sender gives a candidate, in tenths
SenderWeight(uid) ==
    IF user_meta[uid].country = TOP_ADOPTION_COUNTRY THEN 30
    ELSE IF user_meta[uid].country = VIP_COUNTRY THEN 4 ELSE 10

\* pick_sender(): random.choices returns any candidate of positive weight
pick_sender == {uid \in feature_users : SenderWeight(uid) > 0}

\* same_country_users of pick_receiver
same_country_users(s) ==
    {uid \in 1..n_users :
        user_meta[uid].country = user_meta[s].country /\ uid # s}

\* random.randint(1, n_users)
randint_users == 1..n_users

\* pick_day_index(): every day has a positive weight
pick_day_index == 0 .. (days - 1)

\* random_dt_in_day(day_idx)
random_dt_in_day(day_idx) ==
    LET day_start == month_start + day_idx * OneDay
        day_end   == Min(day_start + OneDay, month_end)
    IN  rand_dt(day_start, day_end)

\* start_dt of the lifecycle correction
start_dt(s, rcv) ==
    LET a == IF user_meta[s].signup_dt # None
             THEN Max(month_start, Val(user_meta[s].signup_dt))
             ELSE month_start
    IN  IF user_meta[rcv].signup_dt # None
        THEN Max(a, Val(user_meta[rcv].signup_dt)) ELSE a

\* created_at after the lifecycle correction, drawn as c0 in the day
uncorrected_created_at(c0, s, rcv) == {c0}
corrected_created_at(c0, s, rcv) ==
    IF c0 < start_dt(s, rcv) THEN rand_dt(start_dt(s, rcv), month_end)
    ELSE {c0}

\* 10 ** random.uniform(0.3, 2.2), in thousandths: the two ends of the range
BaseAmounts == {1996, 158489}

\* round(x, 2) where x is num / den hundredths: to nearest, ties to even
RoundHalfEven(num, den) ==
    LET q   == num \div den
        rem == num % den
    IN  IF 2 * rem > den THEN q + 1
        ELSE IF 2 * rem < den THEN q
        ELSE IF q % 2 = 0 THEN q ELSE q + 1

\* round(base_amount * time_scale * country_scale, 2), in cents, where
\* time_scale = 1 + 0.8 * day_idx / max(1, days - 1) = (5d + 4 day_idx) / 5d
amount_cents(base, day_idx, country) ==
    LET d == Max(1, days - 1) IN
    RoundHalfEven(base * (5 * d + 4 * day_idx) * AMOUNT_MULTIPLIER(country),
                  10 * (5 * d) * 10)

\* f"{amount:.2f}": the integer part and the two decimals
FormatAmountOneDecimal(cents) == <<cents \div 100, (cents \div 10) % 10>>
FormatAmount(cents) == <<cents \div 100, (cents \div 10) % 10, cents % 10>>

\* str(uuid.uuid4()): the k-th identifier of the entropy stream e
uuid4(e, k) == <<e, k>>

txn_row(e, k, s, rcv, cents, created_at) ==
    [transaction_id   |-> uuid4(e, k),
     sender_user_id   |-> s,
     receiver_user_id |-> rcv,
     amount           |-> FormatAmount(cents),
     created_at       |-> iso(created_at)]

\* in the second run the seeded draws repeat, uuid4 does not
Second(then, else) == IF entropy2 # 0 THEN then ELSE else

\* The size of the inputs of generate_transactions: the work of the clean
\* batch, the rates and the adopters.  The runs tried are all those of size
\* MaxLoad or less.
TxnLoad ==
    days * n_txns * (n_users - 1)
      + before_signup_rate + null_amount_rate + dup_id_rate
      + Cardinality({uid \in 1..n_users : user_meta[uid].is_feature_user})

\* generate_transactions is called with the user_meta of some population
TxnInputs ==
    /\ IdleMonth /\ IdleUsers /\ IdleEvents
    /\ days \in 1..MaxDays
    /\ n_users \in 1..MaxUsers
    /\ n_txns \in 0..MaxTxns
    /\ user_meta \in [1..n_users -> UserMetas]
    /\ before_signup_rate \in Rates
    /\ null_amount_rate \in Rates
    /\ dup_id_rate \in Rates
    /\ TxnLoad <= MaxLoad
    /\ txns = <<>> /\ txns2 = <<>>
    /\ sender_id = 0 /\ r = 0 /\ redraws = 0
    /\ before_targets = {} /\ dup_targets = {}

\* one run; its identifiers come from the entropy stream 1
Init ==
    /\ pc = "clean_batch"
    /\ TxnInputs
    /\ entropy = 1 /\ IdleAudit
    /\ entropy2 = 0

\* sender_id = pick_sender(); pick_receiver(sender_id) up to line 280
BeginTxn ==
    /\ pc = "clean_batch"
    /\ Len(txns) < n_txns
    /\ \E s \in pick_sender :
         /\ sender_id' = s
         /\ \E same \in BernoulliPct(SAME_COUNTRY_RECEIVER_PROB) :
              IF same /\ same_country_users(s) # {}
              THEN /\ r' \in same_country_users(s)
                   /\ pc' = "receiver_picked"
              ELSE /\ r' = 0
                   /\ pc' = "pick_receiver_randint"
    /\ UNCHANGED <<monthVars, days, userVars, n_txns, before_signup_rate,
                   null_amount_rate, dup_id_rate, txns, txns2, redraws,
                   before_targets, dup_targets, eventVars, entropy, entropy2, observed>>

\* r = random.randint(1, n_users), at line 280 and again at line 282 for as
\* long as r == sender_id; pick_receiver returns the first other r
DrawReceiver ==
    /\ pc = "pick_receiver_randint"
    /\ r' \in randint_users
    /\ pc' = IF r' = sender_id THEN "pick_receiver_randint"
             ELSE "receiver_picked"
    /\ redraws' = IF r' = sender_id THEN 1 - redraws ELSE 0
    /\ UNCHANGED <<monthVars, days, userVars, n_txns, before_signup_rate,
                   null_amount_rate, dup_id_rate, txns, txns2, sender_id,
                   before_targets, dup_targets, eventVars, entropy, entropy2, observed>>

\* the rest of the loop body, once pick_receiver has returned r
MakeTxn ==
    /\ pc = "receiver_picked"
    /\ \E day_idx \in pick_day_index, base \in BaseAmounts :
       \E c0 \in random_dt_in_day(day_idx) :
       \E created_at \in corrected_created_at(c0, sender_id, r) :
         LET cents == amount_cents(base, day_idx,
                                   user_meta[sender_id].country)
             k     == Len(txns) + 1
         IN  /\ txns' = Append(txns,
                   txn_row(entropy, k, sender_id, r, cents, created_at))
             /\ txns2' = Second(Append(txns2,
                   txn_row(entropy2, k, sender_id, r, cents, created_at)),
                   txns2)
    /\ pc' = "clean_batch"
    /\ UNCHANGED <<monthVars, days, userVars, n_txns, before_signup_rate,
                   null_amount_rate, dup_id_rate, sender_id, r, redraws,
                   before_targets, dup_targets, eventVars, entropy, entropy2, observed>>

\* eligible_users of the temporal pass
ThreeDays == 3 * OneDay
eligible_users ==
    {uid \in 1..n_users :
        /\ user_meta[uid].signup_dt # None
        /\ Val(user_meta[uid].signup_dt) > month_start + ThreeDays}

forced_end_past_signup(bad_user) ==
    Max(month_start + OneHour, Val(user_meta[bad_user].signup_dt) + OneMinute)
forced_end(bad_user) ==
    Max(month_start + OneHour, Val(user_meta[bad_user].signup_dt) - OneMinute)

\* what the temporal pass draws for one row
BeforeDraws ==
    {d \in [bad_user : eligible_users, to_sender : BOOLEAN,
            at : month_start .. month_end] :
        d.at \in rand_dt(month_start, forced_end(d.bad_user))}

\* the body of the temporal pass on one row
before_signup_row_past_users(t, d) ==
    [(IF d.to_sender
      THEN [t EXCEPT !.sender_user_id = n_users + d.bad_user]
      ELSE [t EXCEPT !.receiver_user_id = n_users + d.bad_user])
        EXCEPT !.created_at = iso(d.at)]
before_signup_row(t, d) ==
    [(IF d.to_sender THEN [t EXCEPT !.sender_user_id = d.bad_user]
                     ELSE [t EXCEPT !.receiver_user_id = d.bad_user])
        EXCEPT !.created_at = iso(d.at)]

RECURSIVE ApplyBefore(_, _, _, _)
ApplyBefore(tx, q, dr, i) ==
    IF i > Len(q) THEN tx
    ELSE ApplyBefore([tx EXCEPT ![q[i]] = before_signup_row(@, dr[i])],
                     q, dr, i + 1)

\* 1) Temporal inconsistency: created_at before signup
TemporalPass ==
    /\ pc = "clean_batch"
    /\ Len(txns) = n_txns
    /\ LET n_before == Target(n_txns, before_signup_rate) IN
       \E q \in Samples(1..n_txns, Min(n_before, n_txns)) :
         /\ before_targets' = Range(q)
         /\ IF eligible_users # {}
            THEN \E dr \in [1..Len(q) -> BeforeDraws] :
                   /\ txns' = ApplyBefore(txns, q, dr, 1)
                   /\ txns2' = Second(ApplyBefore(txns2, q, dr, 1), txns2)
            ELSE UNCHANGED <<txns, txns2>>
    /\ pc' = "null_amount"
    /\ UNCHANGED <<monthVars, days, userVars, n_txns, before_signup_rate,
                   null_amount_rate, dup_id_rate, sender_id, r, redraws, dup_targets,
                   eventVars, entropy, entropy2, observed>>

RECURSIVE ApplyNullAmount(_, _, _)
ApplyNullAmount(tx, q, i) ==
    IF i > Len(q) THEN tx
    ELSE ApplyNullAmount([tx EXCEPT ![q[i]].amount = Blank], q, i + 1)

\* 2) NULL amount
NullAmountPass ==
    /\ pc = "null_amount"
    /\ LET n_null_amount == Target(n_txns, null_amount_rate) IN
       \E q \in Samples(1..n_txns, Min(n_null_amount, n_txns)) :
         /\ txns' = ApplyNullAmount(txns, q, 1)
         /\ txns2' = Second(ApplyNullAmount(txns2, q, 1), txns2)
    /\ pc' = "dup_ids"
    /\ UNCHANGED <<monthVars, days, userVars, n_txns, before_signup_rate,
                   null_amount_rate, dup_id_rate, sender_id, r, redraws,
                   before_targets, dup_targets, eventVars, entropy, entropy2, observed>>

\* source_idx = random.randrange(0, idx), one for each target
DupSourcesUpToTarget(q) == {src \in [1..Len(q) -> 1..n_txns] :
                              \A i \in 1..Len(q) : src[i] <= q[i]}
DupSources(q) == {src \in [1..Len(q) -> 1..n_txns] :
                     \A i \in 1..Len(q) : src[i] < q[i]}

RECURSIVE ApplyDup(_, _, _, _)
ApplyDup(tx, q, src, i) ==
    IF i > Len(q) THEN tx
    ELSE ApplyDup([tx EXCEPT ![q[i]].transaction_id =
                                 tx[src[i]].transaction_id],
                  q, src, i + 1)

\* 3) Duplicate transaction IDs, then return txns
DupPass ==
    /\ pc = "dup_ids"
    /\ LET n_dupes == Target(n_txns, dup_id_rate) IN
       IF n_txns > 2
       THEN \E q \in Samples(2..n_txns, Min(n_dupes, n_txns - 1)) :
            \E src \in DupSources(q) :
              /\ dup_targets' = Range(q)
              /\ txns' = ApplyDup(txns, q, src, 1)
              /\ txns2' = Second(ApplyDup(txns2, q, src, 1), txns2)
       ELSE UNCHANGED <<txns, txns2, dup_targets>>
    /\ pc' = "txns_done"
    /\ UNCHANGED <<monthVars, days, userVars, n_txns, before_signup_rate,
                   null_amount_rate, dup_id_rate, sender_id, r, redraws,
                   before_targets, eventVars, entropy, entropy2, observed>>

Next == BeginTxn \/ DrawReceiver \/ MakeTxn
          \/ TemporalPass \/ NullAmountPass \/ DupPass
Spec == Init /\ [][Next]_vars

\* the scheduling of a run: a step that can be taken is taken, and a value
\* random.randint can return is returned in the end by a loop that keeps
\* drawing
LeaveRedrawLoop == DrawReceiver /\ pc' = "receiver_picked"
InitFair == Init /\ TxnLoad <= 1
FairSpec == /\ InitFair /\ [][Next]_vars
            /\ WF_vars(Next) /\ SF_vars(LeaveRedrawLoop)

(***************************************************************************)
(* generate_app_events                                                     *)
(* Row i of the source (0-based) is element i + 1 of events.               *)
(***************************************************************************)
EVENT_TYPES == {"login", "page_view", "button_click", "logout"}
\* two of the seven BUTTONS
Buttons == {"send_now", "cancel"}
FiveDays == 5 * OneDay

\* button_id of a fresh event
ButtonChoices(event_type) ==
    IF event_type = "button_click" THEN {<<b>> : b \in Buttons} ELSE {Blank}

event_row(e, j, user_id, event_type, ts, button_id) ==
    [event_id   |-> uuid4(e, n_txns + 2 * j),
     user_id    |-> user_id,
     event_type |-> <<event_type>>,
     event_ts   |-> iso(ts),
     session_id |-> uuid4(e, n_txns + 2 * j - 1),
     button_id  |-> button_id]

EventLoad ==
    days * n_users * n_events
      + orphan_user_rate + null_event_type_rate + out_of_window_rate

InitEvents ==
    /\ pc = "event_batch"
    /\ IdleMonth /\ IdleUsers /\ IdleTxns
    /\ user_meta = <<>>
    /\ days \in 1..MaxDays
    /\ n_users \in 1..MaxUsers
    /\ n_events \in 0..MaxEvents
    /\ orphan_user_rate \in Rates
    /\ null_event_type_rate \in Rates
    /\ out_of_window_rate \in Rates
    /\ EventLoad <= MaxLoad
    /\ events = <<>> /\ events2 = <<>>
    /\ orphan_targets = {} /\ oow_targets = {}
    /\ entropy = 1 /\ IdleAudit
    /\ entropy2 = 0

\* one turn of the loop that builds the events
MakeEvent ==
    /\ pc = "event_batch"
    /\ Len(events) < n_events
    /\ \E user_id \in randint_users, event_type \in EVENT_TYPES,
          ts \in rand_dt(month_start, month_end) :
       \E button_id \in ButtonChoices(event_type) :
         LET j == Len(events) + 1 IN
         /\ events' = Append(events,
               event_row(entropy, j, user_id, event_type, ts, button_id))
         /\ events2' = Second(Append(events2,
               event_row(entropy2, j, user_id, event_type, ts, button_id)),
               events2)
    /\ UNCHANGED <<pc, monthVars, days, userVars, txnVars, n_events,
                   orphan_user_rate, null_event_type_rate,
                   out_of_window_rate, orphan_targets, oow_targets,
                   entropy, entropy2, observed>>

\* n_users + random.randint(1, 50)
OrphanIdsFromLastUser == {n_users + o : o \in 0..MaxOrphanOffset}
OrphanIds == {n_users + o : o \in 1..MaxOrphanOffset}

RECURSIVE ApplyOrphan(_, _, _, _)
ApplyOrphan(ev, q, ids, i) ==
    IF i > Len(q) THEN ev
    ELSE ApplyOrphan([ev EXCEPT ![q[i]].user_id = ids[i]], q, ids, i + 1)

\* 4) Orphan foreign keys
OrphanPass ==
    /\ pc = "event_batch"
    /\ Len(events) = n_events
    /\ LET n_orphan == Target(n_events, orphan_user_rate) IN
       \E q \in Samples(1..n_events, Min(n_orphan, n_events)) :
       \E ids \in [1..Len(q) -> OrphanIds] :
         /\ orphan_targets' = Range(q)
         /\ events' = ApplyOrphan(events, q, ids, 1)
         /\ events2' = Second(ApplyOrphan(events2, q, ids, 1), events2)
    /\ pc' = "null_event_type"
    /\ UNCHANGED <<monthVars, days, userVars, txnVars, n_events,
                   orphan_user_rate, null_event_type_rate,
                   out_of_window_rate, oow_targets, entropy, entropy2, observed>>

RECURSIVE ApplyNullType(_, _, _)
ApplyNullType(ev, q, i) ==
    IF i > Len(q) THEN ev
    ELSE ApplyNullType([ev EXCEPT ![q[i]].event_type = Blank], q, i + 1)

\* 5) NULL critical field: event_type missing
NullTypePass ==
    /\ pc = "null_event_type"
    /\ LET n_null_type == Target(n_events, null_event_type_rate) IN
       \E q \in Samples(1..n_events, Min(n_null_type, n_events)) :
         /\ events' = ApplyNullType(events, q, 1)
         /\ events2' = Second(ApplyNullType(events2, q, 1), events2)
    /\ pc' = "out_of_window"
    /\ UNCHANGED <<monthVars, days, userVars, txnVars, n_events,
                   orphan_user_rate, null_event_type_rate,
                   out_of_window_rate, orphan_targets, oow_targets,
                   entropy, entropy2, observed>>

\* the timestamps the out-of-window pass can draw for one row
OowBefore == rand_dt(month_start - FiveDays, month_start)
OowAfterLastDays == rand_dt(month_end - FiveDays, month_end)
OowAfter  == rand_dt(month_end, month_end + FiveDays)
OowDraws  == OowBefore \cup OowAfter

RECURSIVE ApplyOow(_, _, _, _)
ApplyOow(ev, q, ts, i) ==
    IF i > Len(q) THEN ev
    ELSE ApplyOow([ev EXCEPT ![q[i]].event_ts = iso(ts[i])], q, ts, i + 1)

\* 6) Out-of-window timestamps, then return events
OowPass ==
    /\ pc = "out_of_window"
    /\ LET n_oow == Target(n_events, out_of_window_rate) IN
       \E q \in Samples(1..n_events, Min(n_oow, n_events)) :
       \E ts \in [1..Len(q) -> OowDraws] :
         /\ oow_targets' = Range(q)
         /\ events' = ApplyOow(events, q, ts, 1)
         /\ events2' = Second(ApplyOow(events2, q, ts, 1), events2)
    /\ pc' = "events_done"
    /\ UNCHANGED <<monthVars, days, userVars, txnVars, n_events,
                   orphan_user_rate, null_event_type_rate,
                   out_of_window_rate, orphan_targets, entropy, entropy2, observed>>

NextEvents == MakeEvent \/ OrphanPass \/ NullTypePass \/ OowPass
SpecEvents == InitEvents /\ [][NextEvents]_vars

(***************************************************************************)
(* summarize_anomalies                                                     *)
(***************************************************************************)
users_missing_email(us) ==
    Cardinality({i \in DOMAIN us : _is_null(us[i].email)})
users_missing_signup_at(us) ==
    Cardinality({i \in DOMAIN us : _is_null(us[i].signup_at)})
transactions_missing_amount(tx) ==
    Cardinality({i \in DOMAIN tx : _is_null(tx[i].amount)})

\* Counter(txn_ids)[tid]
IdCount(tx, tid) ==
    Cardinality({i \in DOMAIN tx : ~_is_null(tx[i].transaction_id)
                                    /\ tx[i].transaction_id = tid})
dup_ids(tx) ==
    {tid \in {tx[i].transaction_id : i \in DOMAIN tx} :
        ~_is_null(tid) /\ IdCount(tx, tid) > 1}
transactions_duplicate_distinct_ids(tx) == Cardinality(dup_ids(tx))

\* sum(c[tid] for tid in ids)
RECURSIVE SumCounts(_, _)
SumCounts(tx, ids) ==
    IF ids = {} THEN 0
    ELSE LET tid == CHOOSE x \in ids : TRUE
         IN  IdCount(tx, tid) + SumCounts(tx, ids \ {tid})

\* all rows involved in duplicated IDs
DuplicateRowsBeyondFirst(tx) ==
    SumCounts(tx, dup_ids(tx)) - Cardinality(dup_ids(tx))
transactions_duplicate_rows_total(tx) == SumCounts(tx, dup_ids(tx))

\* duplicates beyond the first occurrence: sum(c[tid] - 1 for tid in dup_ids)
transactions_duplicate_extra_rows(tx) ==
    SumCounts(tx, dup_ids(tx)) - Cardinality(dup_ids(tx))

\* user_meta.get(uid, {}).get("signup_dt")
SignupOf(meta, uid) ==
    IF uid \in DOMAIN meta THEN meta[uid].signup_dt ELSE None

\* the test of the lifecycle loop on one row
before_signup_or_unknown(t, meta) ==
    LET created         == _parse_dt(t.created_at)
        sender_signup   == SignupOf(meta, t.sender_user_id)
        receiver_signup == SignupOf(meta, t.receiver_user_id)
    IN  /\ created # None
        /\ \/ sender_signup = None \/ receiver_signup = None
           \/ Val(created) < Val(sender_signup)
           \/ Val(created) < Val(receiver_signup)

transactions_before_signup_or_unknown_signup(tx, meta) ==
    Cardinality({i \in DOMAIN tx : before_signup_or_unknown(tx[i], meta)})

events_missing_event_type(ev) ==
    Cardinality({i \in DOMAIN ev : _is_null(ev[i].event_type)})

\* user_id is an integer on every row the generator writes
events_orphan_user_id(ev, n_users_expected) ==
    Cardinality({i \in DOMAIN ev : ev[i].user_id \notin 1..n_users_expected})

events_out_of_window(ev) ==
    Cardinality({i \in DOMAIN ev :
        /\ _parse_dt(ev[i].event_ts) # None
        /\ \/ Val(_parse_dt(ev[i].event_ts)) < month_start
           \/ Val(_parse_dt(ev[i].event_ts)) >= month_end})

\* the dictionary summarize_anomalies returns
summarize_anomalies(us, tx, ev, meta, n_users_expected) ==
    [users_missing_email     |-> users_missing_email(us),
     users_missing_signup_at |-> users_missing_signup_at(us),
     transactions_missing_amount |-> transactions_missing_amount(tx),
     transactions_duplicate_distinct_ids |->
         transactions_duplicate_distinct_ids(tx),
     transactions_duplicate_rows_total |->
         transactions_duplicate_rows_total(tx),
     transactions_duplicate_extra_rows |->
         transactions_duplicate_extra_rows(tx),
     transactions_before_signup_or_unknown_signup |->
         transactions_before_signup_or_unknown_signup(tx, meta),
     events_missing_event_type |-> events_missing_event_type(ev),
     events_orphan_user_id     |-> events_orphan_user_id(ev, n_users_expected),
     events_out_of_window      |-> events_out_of_window(ev)]

\* the auditor on its own, on any small set of records: the identifiers
\* are taken from two values and the empty text, so that lists with no
\* group, one group and two groups of rows all occur
AuditIds == {uuid4(1, k) : k \in 1..2} \cup {Blank}
AuditTxnRows ==
    [transaction_id   : AuditIds,
     sender_user_id   : 1..n_users,
     receiver_user_id : {1},
     amount           : {Blank, FormatAmount(200)},
     created_at       : {iso(t) : t \in rand_dt(month_start, month_end)}]
AuditTxns == UNION {[1..k -> AuditTxnRows] : k \in 0..MaxTxns}
AuditMetas ==
    {m \in UserMetas : m.country = TOP_ADOPTION_COUNTRY /\ ~m.is_feature_user}
AuditUsers ==
    {<<>>, <<[user_id |-> 1, email |-> Blank, country |-> TOP_ADOPTION_COUNTRY,
              signup_at |-> iso(month_start)]>>}
AuditEvents ==
    {<<>>, <<event_row(1, 1, n_users + 1, "login", month_start, Blank)>>}

InitAudit ==
    /\ pc = "summarize_anomalies"
    /\ IdleMonth /\ IdleAudit
    /\ days = 1
    /\ n_users \in 1..MaxUsers
    /\ null_email_rate = 0 /\ null_signup_rate = 0
    /\ users \in AuditUsers
    /\ user_meta \in [1..n_users -> AuditMetas]
    /\ txns \in AuditTxns
    /\ n_txns = Len(txns)
    /\ before_signup_rate = 0 /\ null_amount_rate = 0 /\ dup_id_rate = 0
    /\ txns2 = <<>> /\ sender_id = 0 /\ r = 0 /\ redraws = 0
    /\ before_targets = {} /\ dup_targets = {}
    /\ events \in AuditEvents
    /\ n_events = Len(events)
    /\ orphan_user_rate = 0 /\ null_event_type_rate = 0
    /\ out_of_window_rate = 0
    /\ events2 = <<>> /\ orphan_targets = {} /\ oow_targets = {}
    /\ entropy = 1 /\ entropy2 = 0

\* observed = summarize_anomalies(users, txns, events, user_meta, ...)
Summarize ==
    /\ pc = "summarize_anomalies"
    /\ observed' = summarize_anomalies(users, txns, events, user_meta, n_users)
    /\ pc' = "audited"
    /\ UNCHANGED <<monthVars, days, userVars, txnVars, eventVars,
                   entropy, entropy2>>

NextAudit == Summarize
SpecAudit == InitAudit /\ [][NextAudit]_vars

(***************************************************************************)
(* main: random.seed(args.seed), then the three generators in turn.  Two   *)
(* runs with the same seed are followed side by side: the seeded draws of  *)
(* the second are those of the first, its uuid4() values are its own.      *)
(***************************************************************************)
MainLoad ==
    days * (n_users + n_txns + 2 * n_events)
      + null_email_rate + null_signup_rate
      + before_signup_rate + null_amount_rate + dup_id_rate
      + orphan_user_rate + null_event_type_rate + out_of_window_rate

InitDet ==
    /\ pc = "generate_users"
    /\ IdleMonth
    /\ days \in 1..MaxDays
    /\ n_users \in 1..MaxUsers
    /\ n_txns \in 0..MaxTxns
    /\ n_events \in 0..MaxEvents
    /\ null_email_rate \in Rates /\ null_signup_rate \in Rates
    /\ before_signup_rate \in Rates /\ null_amount_rate \in Rates
    /\ dup_id_rate \in Rates
    /\ orphan_user_rate \in Rates /\ null_event_type_rate \in Rates
    /\ out_of_window_rate \in Rates
    /\ MainLoad <= MaxLoad
    /\ users = <<>> /\ user_meta = <<>>
    /\ txns = <<>> /\ txns2 = <<>>
    /\ sender_id = 0 /\ r = 0 /\ redraws = 0
    /\ before_targets = {} /\ dup_targets = {}
    /\ events = <<>> /\ events2 = <<>>
    /\ orphan_targets = {} /\ oow_targets = {}
    /\ entropy = 1 /\ IdleAudit
    /\ entropy2 \in 1..UuidVariants

\* txns = generate_transactions(...)
CallGenerateTransactions ==
    /\ pc = "users_done"
    /\ pc' = "clean_batch"
    /\ UNCHANGED <<monthVars, days, userVars, txnVars, eventVars,
                   entropy, entropy2, observed>>

\* events = generate_app_events(...)
CallGenerateAppEvents ==
    /\ pc = "txns_done"
    /\ pc' = "event_batch"
    /\ UNCHANGED <<monthVars, days, userVars, txnVars, eventVars,
                   entropy, entropy2, observed>>

NextDet == \/ GenUser \/ ReturnUsers \/ CallGenerateTransactions
           \/ BeginTxn \/ DrawReceiver \/ MakeTxn
           \/ TemporalPass \/ NullAmountPass \/ DupPass
           \/ CallGenerateAppEvents
           \/ MakeEvent \/ OrphanPass \/ NullTypePass \/ OowPass
SpecDet == InitDet /\ [][NextDet]_vars

(***************************************************************************)
(* Properties                                                              *)
(***************************************************************************)

\* C1: two runs with the same seed and parameters give the same
\* Transactions and AppEvents, field for field, transaction_id, event_id
\* and session_id included.
C1_SameSeedSameOutput ==
    pc = "events_done" => txns2 = txns /\ events2 = events

\* C2: for n_users >= 2, in the final output of generate_transactions no
\* transaction has its sender as its receiver.
C2_SenderIsNotReceiver ==
    pc = "txns_done" /\ n_users >= 2 =>
        \A i \in DOMAIN txns :
            txns[i].sender_user_id # txns[i].receiver_user_id

\* C3: for n_users >= 1 and any null_email_rate, 0 included, generate_users
\* returns at least one user with an empty email.
C3_SomeEmailMissing ==
    pc = "users_done" /\ n_users >= 1 => users_missing_email(users) >= 1

\* C4: for n_users >= 1 generate_transactions always runs to its end; the
\* redraw loop of pick_receiver takes finitely many turns.
C4_TransactionsTerminate == <>(pc = "txns_done")

\* C5: with n_txns >= 3 and dup_id_rate > 0 the final transactions hold a
\* transaction_id that is on more than one row, in whatever order the
\* targets of the pass are taken.
C5_DuplicateIdPresent ==
    pc = "txns_done" /\ n_txns >= 3 /\ dup_id_rate > 0 =>
        transactions_duplicate_distinct_ids(txns) >= 1

\* a run where the pass took two targets and left one duplicated id
C5_Witness ==
    /\ pc = "txns_done" /\ n_txns >= 3 /\ dup_id_rate > 0
    /\ Cardinality(dup_targets) >= 2
    /\ transactions_duplicate_distinct_ids(txns) = 1

\* a month designator made of a 4-digit year, "-" and a 1-2 digit month
YearMonthShaped(s) ==
    LET parts == Split(s, "-") IN
    /\ Len(parts) = 2
    /\ Len(parts[1]) = 4 /\ Len(parts[2]) \in 1..2
    /\ \A i \in 1..2 : \A j \in DOMAIN parts[i] : parts[i][j] \in Digits

\* C6: parse_month fails on every input that is not a 4-digit year, "-" and
\* a 1-2 digit month; it returns no window for such an input.
C6_MalformedMonthFails ==
    pc # "parse_month" /\ ~YearMonthShaped(month_str) => parsed.raised # ""

\* C7: generate_users returns n_users rows whose user_id values are exactly
\* 1..n_users, each once, and user_meta has the same keys.
C7_UserIdsDense ==
    pc = "users_done" =>
        /\ Len(users) = n_users
        /\ \A i \in DOMAIN users : users[i].user_id \in 1..n_users
        /\ \A id \in 1..n_users :
              Cardinality({i \in DOMAIN users : users[i].user_id = id}) = 1
        /\ DOMAIN user_meta = 1..n_users

\* a population where each of the two coins came up for one user and not
\* for another
C7_Witness ==
    /\ pc = "users_done" /\ n_users >= 2
    /\ \E i, j \in DOMAIN users :
          _is_null(users[i].email) /\ ~_is_null(users[j].email)
    /\ \E i, j \in DOMAIN users :
          _is_null(users[i].signup_at) /\ ~_is_null(users[j].signup_at)

\* C8: in the final output every sender_user_id and receiver_user_id is in
\* 1..n_users, on the rows the temporal pass overwrote as well.
C8_NoOrphanTransactions ==
    pc = "txns_done" =>
        \A i \in DOMAIN txns :
            /\ txns[i].sender_user_id \in 1..n_users
            /\ txns[i].receiver_user_id \in 1..n_users

\* a final row whose sender the temporal pass overwrote with a late signer
C8_Witness ==
    /\ pc = "txns_done" /\ eligible_users # {}
    /\ \E i \in before_targets :
          /\ txns[i].sender_user_id \in eligible_users
          /\ txns[i].receiver_user_id \notin eligible_users
          /\ _parse_dt(txns[i].created_at)
                # None
          /\ Val(_parse_dt(txns[i].created_at))
                < Val(user_meta[txns[i].sender_user_id].signup_dt)

\* the number an amount text stands for, in cents
AmountCents(a) == 100 * a[1] + 10 * a[2] + a[3]

\* C9: an amount is either empty or a strictly positive number written with
\* exactly two decimal digits.
C9_AmountPositiveTwoDecimals ==
    \A i \in DOMAIN txns :
        \/ txns[i].amount = Blank
        \/ /\ Len(txns[i].amount) = 3
           /\ txns[i].amount[1] >= 0
           /\ txns[i].amount[2] \in 0..9 /\ txns[i].amount[3] \in 0..9
           /\ AmountCents(txns[i].amount) > 0

\* a final output with an amount left and an amount blanked
C9_Witness ==
    /\ pc = "txns_done"
    /\ \E i, j \in DOMAIN txns :
          txns[i].amount # Blank /\ txns[j].amount = Blank

Ts(e) == Val(_parse_dt(e.event_ts))

\* C10: for n_events >= 1 the out-of-window pass rewrites event_ts on exactly
\* min(max(1, floor(n_events * out_of_window_rate)), n_events) distinct rows,
\* each to the 5 days before month_start or the 5 days from month_end on;
\* the other rows stay in the window; events_out_of_window counts exactly
\* the rewritten rows.
C10_OutOfWindowExact ==
    pc = "events_done" /\ n_events >= 1 =>
        /\ Cardinality(oow_targets) =
              Min(Max(1, (n_events * out_of_window_rate) \div RateDen),
                  n_events)
        /\ \A i \in oow_targets :
              \/ Ts(events[i]) \in (month_start - FiveDays) .. (month_start - 1)
              \/ Ts(events[i]) \in month_end .. (month_end + FiveDays - 1)
        /\ \A i \in DOMAIN events \ oow_targets :
              Ts(events[i]) \in month_start .. (month_end - 1)
        /\ events_out_of_window(events) = Cardinality(oow_targets)

\* a final output with a row moved past the window and a row left alone
C10_Witness ==
    /\ pc = "events_done"
    /\ \E i \in oow_targets : Ts(events[i]) >= month_end
    /\ \E i \in DOMAIN events \ oow_targets :
          Ts(events[i]) \in month_start .. (month_end - 1)

\* rows whose identifier is also on another row; a row without an
\* identifier belongs to no group
RowsInDuplicateGroups(tx) ==
    {i \in DOMAIN tx :
        /\ ~_is_null(tx[i].transaction_id)
        /\ \E j \in DOMAIN tx :
              j # i /\ tx[j].transaction_id = tx[i].transaction_id}

\* C11: transactions_duplicate_rows_total is the number of rows that sit in
\* a transaction_id group of more than one row, and summarize_anomalies
\* leaves users, txns, events and user_meta as they were.
C11_DuplicateRowsTotal ==
    /\ [](pc = "audited" =>
            observed.transactions_duplicate_rows_total
                = Cardinality(RowsInDuplicateGroups(txns)))
    /\ [][pc' = "audited" =>
            /\ users' = users /\ txns' = txns
            /\ events' = events /\ user_meta' = user_meta]_vars

\* an audit of a list with a group of two rows, a row of its own and
\* nothing else
C11_Witness ==
    /\ pc = "audited" /\ Len(txns) = 3
    /\ observed.transactions_duplicate_rows_total = 2
    /\ observed.transactions_duplicate_distinct_ids = 1
    /\ users # <<>> /\ events # <<>>

\* C12: in the final output every row the duplicate pass took as a target
\* carries a transaction_id that is also on a row before it, and the first
\* row keeps the transaction_id it was generated with.
C12_TargetHasEarlierOriginal ==
    pc = "txns_done" =>
        /\ \A i \in dup_targets :
              \E j \in 1..(i - 1) :
                  txns[j].transaction_id = txns[i].transaction_id
        /\ n_txns >= 1 => txns[1].transaction_id = uuid4(entropy, 1)

\* C13: in the final events button_id is non-empty only on the rows whose
\* event_type is button_click; a row with any other event_type, a blanked
\* one included, has an empty button_id.
C13_ButtonOnlyOnClicks ==
    pc = "events_done" =>
        \A i \in DOMAIN events :
            events[i].button_id # Blank =>
                events[i].event_type = <<"button_click">>

CreatedAt(t) == Val(_parse_dt(t.created_at))

\* C14: the temporal pass selects exactly
\* min(max(1, floor(n_txns * before_signup_rate)), n_txns) distinct rows;
\* when some user has a known signup after month_start + 3 days, each
\* selected row ends, in the final output, with such a user as its sender or
\* receiver and created_at in [month_start, signup of that user), and is
\* counted by transactions_before_signup_or_unknown_signup; when there is no
\* such user the pass changes no row.
C14_TemporalPass ==
    /\ [](pc = "txns_done" =>
            /\ Cardinality(before_targets) =
                  Min(Max(1, (n_txns * before_signup_rate) \div RateDen),
                      n_txns)
            /\ eligible_users # {} =>
                  \A i \in before_targets :
                      /\ \E u \in eligible_users :
                            /\ \/ txns[i].sender_user_id = u
                               \/ txns[i].receiver_user_id = u
                            /\ CreatedAt(txns[i]) >= month_start
                            /\ CreatedAt(txns[i])
                                  < Val(user_meta[u].signup_dt)
                      /\ before_signup_or_unknown(txns[i], user_meta))
    /\ [][pc = "clean_batch" /\ pc' = "null_amount" /\ eligible_users = {}
            => txns' = txns]_vars

\* a final row whose receiver the pass overwrote with a late signer, and
\* which the missing-amount pass took afterwards
C14_Witness ==
    /\ pc = "txns_done" /\ eligible_users # {}
    /\ \E i \in before_targets :
          /\ txns[i].receiver_user_id \in eligible_users
          /\ txns[i].sender_user_id \notin eligible_users
          /\ CreatedAt(txns[i])
                < Val(user_meta[txns[i].receiver_user_id].signup_dt)
          /\ txns[i].amount = Blank

\* the clean batch is being built or is complete, no pass has run yet
BeforeThePasses ==
    pc \in {"clean_batch", "pick_receiver_randint", "receiver_picked"}

KnownSignups(t) ==
    {Val(user_meta[u].signup_dt) :
        u \in {v \in {t.sender_user_id, t.receiver_user_id} :
                  user_meta[v].signup_dt # None}}

\* C15: before the anomaly passes run, every transaction has created_at at
\* or after each known signup of its sender and receiver; an absent signup
\* sets no bound.
C15_CleanBatchLifecycle ==
    BeforeThePasses =>
        \A i \in DOMAIN txns :
            \A signup \in KnownSignups(txns[i]) : CreatedAt(txns[i]) >= signup

\* a complete clean batch with a row that has one known signup after
\* month_start and one absent signup
C15_Witness ==
    /\ pc = "clean_batch" /\ n_txns >= 1 /\ Len(txns) = n_txns
    /\ \E i \in DOMAIN txns :
          /\ user_meta[txns[i].sender_user_id].signup_dt # None
          /\ Val(user_meta[txns[i].sender_user_id].signup_dt) > month_start
          /\ user_meta[txns[i].receiver_user_id].signup_dt = None
          /\ CreatedAt(txns[i]) >= month_start

\* every user signed up in the last instant of the window
AllSignedUpLast ==
    \A u \in 1..n_users : user_meta[u].signup_dt = Some(month_end - 1)

\* C16, as stated: when both participants signed up very late the lifecycle
\* correction puts a clean-batch created_at at or past month_end.  Taken in
\* the most favourable case, all signups in the last instant of a window of
\* two days or more.
C16_LateSignupsPassMonthEnd ==
    /\ pc = "clean_batch" /\ n_txns >= 1 /\ Len(txns) = n_txns
    /\ month_end - month_start > OneDay /\ AllSignedUpLast
    => \E i \in DOMAIN txns : CreatedAt(txns[i]) >= month_end

\* C16, amended: the lifecycle correction redraws in [bound, month_end) and
\* the bound is a signup, which is before month_end; every clean-batch
\* transaction has created_at in [month_start, month_end).
C16_CleanBatchInWindow ==
    BeforeThePasses =>
        \A i \in DOMAIN txns :
            /\ CreatedAt(txns[i]) >= month_start
            /\ CreatedAt(txns[i]) < month_end

\* a complete clean batch whose participants all signed up in the last
\* instant of a window of two days or more
C16_Witness ==
    /\ pc = "clean_batch" /\ n_txns >= 1 /\ Len(txns) = n_txns
    /\ month_end - month_start > OneDay /\ AllSignedUpLast
    /\ \E i \in DOMAIN txns : CreatedAt(txns[i]) = month_end - 1

\* the largest offset random.randint(1, 50) returns
LargestOrphanOffset == 50

UserIds(ev) == [i \in DOMAIN ev |-> ev[i].user_id]

\* C17: for the orphan pass, exactly
\* min(max(1, floor(n_events * orphan_user_rate)), n_events) distinct rows
\* get a user_id in n_users+1 .. n_users+50, every other row keeps a user_id
\* in 1..n_users, the two later passes leave user_id as it is, and
\* events_orphan_user_id is the number of rows selected.
C17_OrphanPass ==
    /\ [](pc \in {"null_event_type", "out_of_window", "events_done"} =>
            /\ Cardinality(orphan_targets) =
                  Min(Max(1, (n_events * orphan_user_rate) \div RateDen),
                      n_events)
            /\ \A i \in orphan_targets :
                  events[i].user_id \in
                      (n_users + 1) .. (n_users + LargestOrphanOffset)
            /\ \A i \in DOMAIN events \ orphan_targets :
                  events[i].user_id \in 1..n_users
            /\ events_orphan_user_id(events, n_users)
                  = Cardinality(orphan_targets))
    /\ [][(pc = "null_event_type" \/ pc = "out_of_window") =>
            UserIds(events)' = UserIds(events)]_vars

\* a final output with an orphan row and a row left with its user
C17_Witness ==
    /\ pc = "events_done" /\ n_events >= 2
    /\ \E i \in orphan_targets : events[i].user_id > n_users
    /\ \E i \in DOMAIN events \ orphan_targets :
          events[i].user_id \in 1..n_users
    /\ events_orphan_user_id(events, n_users) = 1

====
